---- MODULE Spec2Model ----
(***************************************************************************)
(* Model of storage_comparison.py: the two storage estimators              *)
(* (estimate_storage_old_approach, estimate_storage_chunked_approach) and  *)
(* the reporting routine print_comparison.                                 *)
(*                                                                         *)
(* Numbers.  Python ints are modelled by TLA+ integers.  Python floats are *)
(* modelled by exact rationals [n |-> numerator, d |-> denominator > 0] in *)
(* lowest terms; the literals 1.2 and 0.1 are 6/5 and 1/10.  IEEE-754      *)
(* rounding of the individual operations (relative error below 2^-52) is   *)
(* not modelled.                                                           *)
(***************************************************************************)
EXTENDS Integers, Sequences, FiniteSets, TLC

VARIABLES entry, pc, i, scenario, old, new_100, new_50, out, calls,
          args, ret_old, ret_new

vars == <<entry, pc, i, scenario, old, new_100, new_50, out, calls,
          args, ret_old, ret_new>>

(***************************************************************************)
(* Bounds of the inputs given to the estimators when they are called       *)
(* directly.                                                               *)
(***************************************************************************)
MaxDim == 1

MaxFpsHalves == 5

MaxDuration == 7

MaxChunk == 3

(***************************************************************************)
(* The outcome of an evaluation: a returned value or a raised exception.   *)
(***************************************************************************)
NoCall == [kind |-> "none"]

Return(v) == [kind |-> "return", value |-> v]

Raise(e) == [kind |-> "raise", exc |-> e]

(***************************************************************************)
(* Python arithmetic.                                                      *)
(***************************************************************************)
\* Python evaluates the operands of an operator once, before applying it: each
\* operator below binds its operands (x \in {a}) and computes on the bound values.
Abs(x) == IF x < 0 THEN -x ELSE x

RECURSIVE GCD(_, _)
GCD(a, b) ==
    IF b = 0 THEN a
    ELSE CHOOSE g \in {GCD(y, x % y) : x \in {a}, y \in {b}} : TRUE

\* The rational n/d (d # 0) in lowest terms with a positive denominator.
Norm(n, d) ==
    CHOOSE r \in
        {LET g == GCD(Abs(x), Abs(y))
             s == IF y < 0 THEN -1 ELSE 1
         IN  [n |-> s * (x \div g), d |-> s * (y \div g)] : x \in {n}, y \in {d}} : TRUE

\* int -> float conversion of an operand.
Q(k) == [n |-> k, d |-> 1]

\* a * b on floats; common factors are cancelled before multiplying.
Mul(a, b) ==
    CHOOSE r \in
        {LET g1 == GCD(Abs(x.n), y.d)
             g2 == GCD(Abs(y.n), x.d)
         IN  [n |-> (x.n \div g1) * (y.n \div g2), d |-> (x.d \div g2) * (y.d \div g1)] :
            x \in {a}, y \in {b}} : TRUE

\* a / b on floats, b # 0.
Div(a, b) == CHOOSE r \in {Mul(x, Norm(y.d, y.n)) : x \in {a}, y \in {b}} : TRUE

\* a + b on floats.
Add(a, b) ==
    CHOOSE r \in
        {LET g == GCD(x.d, y.d)
         IN  Norm(x.n * (y.d \div g) + y.n * (x.d \div g), x.d * (y.d \div g)) :
            x \in {a}, y \in {b}} : TRUE

\* a - b on floats.
Sub(a, b) == CHOOSE r \in {Add(x, [n |-> -y.n, d |-> y.d]) : x \in {a}, y \in {b}} : TRUE

\* a < b and a <= b on floats.
Less(a, b) ==
    \E x \in {a}, y \in {b} :
        LET g == GCD(x.d, y.d)
        IN  x.n * (y.d \div g) < y.n * (x.d \div g)

Leq(a, b) == ~Less(b, a)

\* max(a, b): Python returns the first argument unless the second is larger.
Max(a, b) == CHOOSE r \in {IF Less(x, y) THEN y ELSE x : x \in {a}, y \in {b}} : TRUE

\* int(x): truncation towards zero.
ToInt(a) ==
    CHOOSE r \in {IF x.n >= 0 THEN x.n \div x.d ELSE -((-x.n) \div x.d) : x \in {a}} : TRUE

\* a // b on ints: floor division; a zero divisor raises.
FloorDiv(a, b) ==
    IF b = 0 THEN Raise("ZeroDivisionError")
    ELSE IF b > 0 THEN Return(a \div b)
    ELSE Return((-a) \div (-b))

\* The float literals of the estimators.
PNG_OVERHEAD == [n |-> 6, d |-> 5]

H265_RATIO == [n |-> 1, d |-> 10]

(***************************************************************************)
(* The estimators.                                                         *)
(***************************************************************************)
\* total_frames = int(fps * duration_seconds)
total_frames(fps, duration_seconds) == ToInt(Mul(fps, Q(duration_seconds)))

\* Variant: the PNG overhead factor left out.
frame_size_mb_no_overhead(width, height) == Div(Q(width * height * 3), Q(1024 * 1024))

\* frame_size_mb = (width * height * 3 * 1.2) / (1024 * 1024)
frame_size_mb(width, height) ==
    Div(Mul(Q(width * height * 3), PNG_OVERHEAD), Q(1024 * 1024))

\* Variant: the SBS frames counted at single width.
sbs_frames_mb_single_width(fs, tf) == Mul(fs, Q(tf))

\* sbs_frames_mb = (frame_size_mb * 2) * total_frames
sbs_frames_mb(fs, tf) == Mul(Mul(fs, Q(2)), Q(tf))

estimate_storage_old_approach(width, height, fps, duration_seconds) ==
    LET tf == total_frames(fps, duration_seconds)
        fs == frame_size_mb(width, height)
        extracted_frames_mb == Mul(fs, Q(tf))
        sbs == sbs_frames_mb(fs, tf)
        total_peak_mb == Add(extracted_frames_mb, sbs)
    IN  Return([total_frames |-> tf,
                frame_size_mb |-> fs,
                extracted_frames_mb |-> extracted_frames_mb,
                sbs_frames_mb |-> sbs,
                total_peak_mb |-> total_peak_mb])

\* Variant: floor division, the partial last chunk dropped.
total_chunks_floor(tf, chunk_size) == FloorDiv(tf, chunk_size)

\* Variant: total_frames // chunk_size + 1, one chunk too many on exact division.
total_chunks_plus_one(tf, chunk_size) ==
    LET q == FloorDiv(tf, chunk_size)
    IN  IF q.kind = "raise" THEN q ELSE Return(q.value + 1)

\* Variant: a zero chunk size replaced by 1 before dividing.
total_chunks_guarded(tf, chunk_size) ==
    LET c == IF chunk_size = 0 THEN 1 ELSE chunk_size
    IN  FloorDiv(tf + c - 1, c)

\* total_chunks = (total_frames + chunk_size - 1) // chunk_size
total_chunks(tf, chunk_size) == FloorDiv(tf + chunk_size - 1, chunk_size)

\* Variant: the SBS frames subtracted instead of added.
peak_chunk_mb_minus_sbs(ce, chunk_sbs_mb, cv) == Add(Sub(ce, chunk_sbs_mb), cv)

\* peak_chunk_mb = chunk_extracted_mb + chunk_sbs_mb + chunk_video_mb
peak_chunk_mb(ce, chunk_sbs_mb, cv) == Add(Add(ce, chunk_sbs_mb), cv)

\* Variant: divided by the compression ratio instead of multiplied.
chunk_video_mb_divided(chunk_sbs_mb) == Div(chunk_sbs_mb, H265_RATIO)

\* chunk_video_mb = chunk_sbs_mb * 0.1
chunk_video_mb(chunk_sbs_mb) == Mul(chunk_sbs_mb, H265_RATIO)

\* Variant: the last chunk's video left out.
max_chunk_videos_mb_without_last(cv, tc) == Mul(cv, Q(tc - 1))

\* max_chunk_videos_mb = chunk_video_mb * total_chunks
max_chunk_videos_mb(cv, tc) == Mul(cv, Q(tc))

\* Variant: the final video left out of the assembly phase.
chunked_total_peak_mb_no_final(pk, mcv, final_video_mb) == Max(pk, mcv)

\* total_peak_mb = max(peak_chunk_mb, max_chunk_videos_mb + final_video_mb)
chunked_total_peak_mb(pk, mcv, final_video_mb) ==
    Max(pk, Add(mcv, final_video_mb))

estimate_storage_chunked_approach(width, height, fps, duration_seconds, chunk_size) ==
    LET tf == total_frames(fps, duration_seconds)
        division == total_chunks(tf, chunk_size)
        tc == division.value
        fs == frame_size_mb(width, height)
        chunk_extracted_mb == Mul(fs, Q(chunk_size))
        chunk_sbs_mb == Mul(Mul(fs, Q(2)), Q(chunk_size))
        cv == chunk_video_mb(chunk_sbs_mb)
        pk == peak_chunk_mb(chunk_extracted_mb, chunk_sbs_mb, cv)
        mcv == max_chunk_videos_mb(cv, tc)
        final_video_mb == mcv
        total_peak_mb == chunked_total_peak_mb(pk, mcv, final_video_mb)
    IN  IF division.kind = "raise" THEN division
        ELSE
        Return([total_frames |-> tf,
                total_chunks |-> tc,
                chunk_size |-> chunk_size,
                frame_size_mb |-> fs,
                peak_chunk_mb |-> pk,
                max_chunk_videos_mb |-> mcv,
                total_peak_mb |-> total_peak_mb])

(***************************************************************************)
(* print_comparison.                                                       *)
(***************************************************************************)
scenarios ==
    << [name |-> "1080p 30fps 10min", width |-> 1920, height |-> 1080, fps |-> 30, duration |-> 600],
       [name |-> "4K 30fps 10min", width |-> 3840, height |-> 2160, fps |-> 30, duration |-> 600],
       [name |-> "4K 60fps 10min", width |-> 3840, height |-> 2160, fps |-> 60, duration |-> 600],
       [name |-> "1080p 30fps 1hour", width |-> 1920, height |-> 1080, fps |-> 30, duration |-> 3600] >>

NoScenario == [name |-> "", width |-> 0, height |-> 0, fps |-> 0, duration |-> 0]

\* floor of a float
Floor(x) == x.n \div x.d

\* The digits printed by a fixed-point format with k decimals, as the integer
\* x * 10^k rounded to nearest, ties to even.
RECURSIVE Pow10(_)
Pow10(k) == IF k = 0 THEN 1 ELSE 10 * Pow10(k - 1)

Fixed(x, k) ==
    CHOOSE r \in
        {LET f == Floor(y)
             twice == Mul(Sub(y, Q(f)), Q(2))
         IN  IF Less(twice, Q(1)) THEN f
             ELSE IF Less(Q(1), twice) THEN f + 1
             ELSE IF f % 2 = 0 THEN f ELSE f + 1 : y \in {Mul(x, Q(Pow10(k)))}} : TRUE

\* (old - new) / old * 100
savings(old_peak, new_peak) ==
    CHOOSE r \in {Mul(Div(Sub(o, n), o), Q(100)) : o \in {old_peak}, n \in {new_peak}} : TRUE

\* x / 1024
gb(x) == Div(x, Q(1024))

\* The f-strings of one scenario's figures, as the numbers they print.
figures(o, n100, n50) ==
    [total_frames |-> o.total_frames,
     frame_size |-> Fixed(o.frame_size_mb, 2),
     old_mb |-> Fixed(o.total_peak_mb, 1),
     old_gb |-> Fixed(gb(o.total_peak_mb), 1),
     new_100_mb |-> Fixed(n100.total_peak_mb, 1),
     new_100_gb |-> Fixed(gb(n100.total_peak_mb), 1),
     new_100_savings |-> Fixed(savings(o.total_peak_mb, n100.total_peak_mb), 1),
     new_50_mb |-> Fixed(n50.total_peak_mb, 1),
     new_50_gb |-> Fixed(gb(n50.total_peak_mb), 1),
     new_50_savings |-> Fixed(savings(o.total_peak_mb, n50.total_peak_mb), 1)]

(***************************************************************************)
(* Inputs of a direct call of an estimator.                                *)
(***************************************************************************)
Dims == -1 .. MaxDim

FpsValues == {Norm(k, 2) : k \in -1 .. MaxFpsHalves}

Durations == -1 .. MaxDuration

ChunkSizes == -1 .. MaxChunk

Profiles == [width : Dims, height : Dims, fps : FpsValues, duration : Durations]

NoArgs == [width |-> 0, height |-> 0, fps |-> Q(0), duration |-> 0]

(***************************************************************************)
(* The state machine.  entry = "main": the script is run and calls         *)
(* print_comparison.  entry = "call": the estimators are called directly   *)
(* with the profile args.                                                  *)
(***************************************************************************)
Init ==
    /\ entry \in {"main", "call"}
    /\ pc = "start"
    /\ i = 0
    /\ scenario = NoScenario
    /\ old = NoCall
    /\ new_100 = NoCall
    /\ new_50 = NoCall
    /\ out = << >>
    /\ calls = << >>
    /\ args \in IF entry = "call" THEN Profiles ELSE {NoArgs}
    /\ ret_old = NoCall
    /\ ret_new = << >>

\* lines 80-82: the title, the rule and the blank line
PrintHeader ==
    /\ entry = "main" /\ pc = "start"
    /\ pc' = "loop"
    /\ out' = Append(out, [tag |-> "title"])
    /\ UNCHANGED <<entry, i, scenario, old, new_100, new_50, calls, args, ret_old, ret_new>>

\* lines 84-86: the next scenario of the list; its name and rule are printed
BeginScenario ==
    /\ entry = "main" /\ pc = "loop" /\ i < Len(scenarios)
    /\ i' = i + 1
    /\ scenario' = scenarios[i + 1]
    /\ out' = Append(out, [tag |-> "scenario", name |-> scenarios[i + 1].name])
    /\ pc' = "old"
    /\ UNCHANGED <<entry, old, new_100, new_50, calls, args, ret_old, ret_new>>

\* lines 88-91
CallOld ==
    /\ entry = "main" /\ pc = "old"
    /\ old' = estimate_storage_old_approach(scenario.width, scenario.height,
                                             Q(scenario.fps), scenario.duration)
    /\ calls' = Append(calls, [fn |-> "old", scenario |-> i, chunk_size |-> 0])
    /\ pc' = IF old'.kind = "raise" THEN "raised" ELSE "new_100"
    /\ UNCHANGED <<entry, i, scenario, new_100, new_50, out, args, ret_old, ret_new>>

\* lines 93-96
CallNew100 ==
    /\ entry = "main" /\ pc = "new_100"
    /\ new_100' = estimate_storage_chunked_approach(scenario.width, scenario.height,
                                                     Q(scenario.fps), scenario.duration, 100)
    /\ calls' = Append(calls, [fn |-> "chunked", scenario |-> i, chunk_size |-> 100])
    /\ pc' = IF new_100'.kind = "raise" THEN "raised" ELSE "new_50"
    /\ UNCHANGED <<entry, i, scenario, old, new_50, out, args, ret_old, ret_new>>

\* Variant: the third call repeats chunk size 100.
CallNew50_with_100 ==
    /\ entry = "main" /\ pc = "new_50"
    /\ new_50' = estimate_storage_chunked_approach(scenario.width, scenario.height,
                                                    Q(scenario.fps), scenario.duration, 100)
    /\ calls' = Append(calls, [fn |-> "chunked", scenario |-> i, chunk_size |-> 100])
    /\ pc' = IF new_50'.kind = "raise" THEN "raised" ELSE "print"
    /\ UNCHANGED <<entry, i, scenario, old, new_100, out, args, ret_old, ret_new>>

\* lines 98-101
CallNew50 ==
    /\ entry = "main" /\ pc = "new_50"
    /\ new_50' = estimate_storage_chunked_approach(scenario.width, scenario.height,
                                                    Q(scenario.fps), scenario.duration, 50)
    /\ calls' = Append(calls, [fn |-> "chunked", scenario |-> i, chunk_size |-> 50])
    /\ pc' = IF new_50'.kind = "raise" THEN "raised" ELSE "print"
    /\ UNCHANGED <<entry, i, scenario, old, new_100, out, args, ret_old, ret_new>>

\* lines 103-118; the savings divide by old['total_peak_mb']
EmitFigures ==
    /\ entry = "main" /\ pc = "print"
    /\ IF old.value.total_peak_mb.n = 0
         THEN /\ pc' = "raised"
              /\ out' = out
         ELSE /\ pc' = "loop"
              /\ out' = Append(out, [tag |-> "figures", name |-> scenario.name,
                                     values |-> figures(old.value, new_100.value, new_50.value)])
    /\ UNCHANGED <<entry, i, scenario, old, new_100, new_50, calls, args, ret_old, ret_new>>

\* line 84 with the list exhausted: print_comparison returns, the script ends
Finish ==
    /\ entry = "main" /\ pc = "loop" /\ i = Len(scenarios)
    /\ pc' = "done"
    /\ UNCHANGED <<entry, i, scenario, old, new_100, new_50, out, calls, args, ret_old, ret_new>>

\* a direct call estimate_storage_old_approach(width, height, fps, duration)
EstimateOld ==
    /\ entry = "call" /\ ret_old = NoCall
    /\ ret_old' = estimate_storage_old_approach(args.width, args.height, args.fps, args.duration)
    /\ UNCHANGED <<entry, pc, i, scenario, old, new_100, new_50, out, calls, args, ret_new>>

\* a direct call estimate_storage_chunked_approach(width, height, fps, duration, c)
EstimateChunked ==
    /\ entry = "call"
    /\ \E c \in ChunkSizes \ DOMAIN ret_new :
          ret_new' = (c :> estimate_storage_chunked_approach(
                               args.width, args.height, args.fps, args.duration, c)) @@ ret_new
    /\ UNCHANGED <<entry, pc, i, scenario, old, new_100, new_50, out, calls, args, ret_old>>

MainNext == PrintHeader \/ BeginScenario \/ CallOld \/ CallNew100 \/ CallNew50
            \/ EmitFigures \/ Finish

Next == MainNext \/ EstimateOld \/ EstimateChunked

Spec == Init /\ [][Next]_vars

\* The script is single-threaded and straight-line: a step that can be taken is taken.
FairSpec == Spec /\ WF_vars(MainNext)

(***************************************************************************)
(* The results a state holds.                                              *)
(***************************************************************************)
\* The chunked estimates a state holds, each with the profile it was computed for.
ChunkedResults ==
    {[width |-> args.width, height |-> args.height, fps |-> args.fps,
      duration |-> args.duration, est |-> ret_new[c].value] :
        c \in {k \in DOMAIN ret_new : ret_new[k].kind = "return"}}
    \cup {[width |-> scenario.width, height |-> scenario.height, fps |-> Q(scenario.fps),
           duration |-> scenario.duration, est |-> r.value] :
             r \in {x \in {new_100, new_50} :
                      /\ x.kind = "return"
                      /\ x = new_50 => pc \in {"print", "loop", "done"}
                      /\ x = new_100 => pc \in {"new_50", "print", "loop", "done"}}}

\* The old-approach estimates a state holds.
OldResults ==
    {r.value : r \in {x \in {ret_old, old} : x.kind = "return"}}

\* The figures emitted so far.
Figures == SelectSeq(out, LAMBDA e : e.tag = "figures")

\* A VideoProfile of the data model: every field is positive.
ValidProfile(r) == r.width > 0 /\ r.height > 0 /\ r.fps.n > 0 /\ r.duration > 0

(***************************************************************************)
(* C1.  In each of the four fixed scenarios, at chunk size 100 and at      *)
(* chunk size 50, the chunked total_peak_mb is strictly less than the old  *)
(* approach's total_peak_mb, and the savings percentage, as computed and   *)
(* as printed, is strictly greater than 0.                                 *)
(***************************************************************************)
C1_ChunkedBelowOld ==
    /\ (entry = "main" /\ pc = "print") =>
          /\ Less(new_100.value.total_peak_mb, old.value.total_peak_mb)
          /\ Less(new_50.value.total_peak_mb, old.value.total_peak_mb)
          /\ Less(Q(0), savings(old.value.total_peak_mb, new_100.value.total_peak_mb))
          /\ Less(Q(0), savings(old.value.total_peak_mb, new_50.value.total_peak_mb))
    /\ \A k \in 1 .. Len(Figures) :
          /\ Figures[k].name = scenarios[k].name
          /\ Figures[k].values.new_100_savings > 0
          /\ Figures[k].values.new_50_savings > 0
    /\ pc = "done" => Len(Figures) = 4

C1_Witness ==
    /\ pc = "done" /\ Len(Figures) = 4
    /\ new_50.value.chunk_size = 50 /\ new_100.value.chunk_size = 100

(***************************************************************************)
(* C2.  For total_frames >= 0 and chunk_size >= 1, total_chunks is the     *)
(* ceiling of total_frames / chunk_size:                                   *)
(* total_chunks * chunk_size >= total_frames and                           *)
(* (total_chunks - 1) * chunk_size < total_frames.                         *)
(***************************************************************************)
C2_CeilingDivision ==
    \A r \in ChunkedResults :
        (r.est.total_frames >= 0 /\ r.est.chunk_size >= 1) =>
            /\ r.est.total_chunks * r.est.chunk_size >= r.est.total_frames
            /\ (r.est.total_chunks - 1) * r.est.chunk_size < r.est.total_frames

C2_Witness ==
    \E r \in ChunkedResults :
        /\ r.est.total_frames > r.est.chunk_size /\ r.est.chunk_size > 1
        /\ r.est.total_frames % r.est.chunk_size # 0
        /\ r.est.total_chunks * r.est.chunk_size > r.est.total_frames

(***************************************************************************)
(* C3.  For one video profile (all fields positive) and chunk sizes        *)
(* 1 <= c1 <= c2: peak_chunk_mb(c1) <= peak_chunk_mb(c2) and               *)
(* total_chunks(c1) >= total_chunks(c2).                                   *)
(***************************************************************************)
C3_Monotone ==
    \A a \in ChunkedResults, b \in ChunkedResults :
        ( /\ ValidProfile(a)
          /\ a.width = b.width /\ a.height = b.height
          /\ a.fps = b.fps /\ a.duration = b.duration
          /\ 1 <= a.est.chunk_size /\ a.est.chunk_size <= b.est.chunk_size ) =>
            /\ Leq(a.est.peak_chunk_mb, b.est.peak_chunk_mb)
            /\ a.est.total_chunks >= b.est.total_chunks

C3_Witness ==
    \E a \in ChunkedResults, b \in ChunkedResults :
        /\ ValidProfile(a)
        /\ a.width = b.width /\ a.height = b.height
        /\ a.fps = b.fps /\ a.duration = b.duration
        /\ 1 <= a.est.chunk_size /\ a.est.chunk_size < b.est.chunk_size
        /\ Less(a.est.peak_chunk_mb, b.est.peak_chunk_mb)
        /\ a.est.total_chunks > b.est.total_chunks
        /\ entry = "call"

(***************************************************************************)
(* C4.  The old approach's total_peak_mb is exactly 3 times                *)
(* extracted_frames_mb and its sbs_frames_mb exactly 2 times               *)
(* extracted_frames_mb, for every input.                                   *)
(***************************************************************************)
C4_OldIsThreeTimesExtracted ==
    \A r \in OldResults :
        /\ r.total_peak_mb = Mul(Q(3), r.extracted_frames_mb)
        /\ r.sbs_frames_mb = Mul(Q(2), r.extracted_frames_mb)

C4_Witness ==
    /\ entry = "call" /\ ret_old.kind = "return"
    /\ Less(Q(0), ret_old.value.extracted_frames_mb)
    /\ ret_old.value.total_frames > 1

(***************************************************************************)
(* C5.  For chunk_size >= 1 the chunked total_peak_mb is the larger of     *)
(* peak_chunk_mb and 2 * max_chunk_videos_mb: it equals one of them and is *)
(* below neither.                                                          *)
(***************************************************************************)
C5_TotalIsLargerPhase ==
    \A r \in ChunkedResults :
        r.est.chunk_size >= 1 =>
            LET assembly == Mul(Q(2), r.est.max_chunk_videos_mb)
            IN  /\ r.est.total_peak_mb \in {r.est.peak_chunk_mb, assembly}
                /\ Leq(r.est.peak_chunk_mb, r.est.total_peak_mb)
                /\ Leq(assembly, r.est.total_peak_mb)

\* Both orders of the two phases occur among the direct calls of one profile.
C5_Witness ==
    /\ entry = "call"
    /\ \E a \in ChunkedResults, b \in ChunkedResults :
        /\ a.est.chunk_size >= 1 /\ b.est.chunk_size >= 1
        /\ Less(a.est.peak_chunk_mb, Mul(Q(2), a.est.max_chunk_videos_mb))
        /\ Less(Mul(Q(2), b.est.max_chunk_videos_mb), b.est.peak_chunk_mb)

(***************************************************************************)
(* C6.  Every chunk counts as full-sized: max_chunk_videos_mb is           *)
(* chunk_video_mb * total_chunks also when chunk_size does not divide      *)
(* total_frames.  For total_frames >= 0, chunk_size >= 1 and a frame of    *)
(* positive width and height, total_peak_mb is at least the total peak of  *)
(* the reference estimator that sizes the last chunk by its actual frame   *)
(* count, and max_chunk_videos_mb equals the reference's when chunk_size   *)
(* divides total_frames.                                                   *)
(***************************************************************************)
\* The encoded video of a chunk of k frames: ((frame_size_mb * 2) * k) * 0.1
RefChunkVideo(fs, k) == Mul(Mul(Mul(fs, Q(2)), Q(k)), H265_RATIO)

\* Raw frames + SBS frames + encoded video of a chunk of k frames.
RefChunkPeak(fs, k) ==
    Add(Add(Mul(fs, Q(k)), Mul(Mul(fs, Q(2)), Q(k))), RefChunkVideo(fs, k))

\* The reference: total_frames \div chunk_size full chunks and, when the
\* remainder is not zero, a last chunk of total_frames % chunk_size frames.
RefChunkVideos(fs, tf, c) ==
    Add(Mul(RefChunkVideo(fs, c), Q(tf \div c)), RefChunkVideo(fs, tf % c))

RefTotalPeak(fs, tf, c) ==
    LET largest == IF tf >= c THEN c ELSE tf
        videos == RefChunkVideos(fs, tf, c)
    IN  Max(RefChunkPeak(fs, largest), Add(videos, videos))

C6_FullSizedUpperBound ==
    \A r \in ChunkedResults :
        (r.est.total_frames >= 0 /\ r.est.chunk_size >= 1 /\ r.width > 0 /\ r.height > 0) =>
            LET fs == r.est.frame_size_mb
                tf == r.est.total_frames
                c == r.est.chunk_size
            IN  /\ r.est.max_chunk_videos_mb
                     = Mul(RefChunkVideo(fs, c), Q(r.est.total_chunks))
                /\ Leq(RefTotalPeak(fs, tf, c), r.est.total_peak_mb)
                /\ tf % c = 0 => r.est.max_chunk_videos_mb = RefChunkVideos(fs, tf, c)
                /\ tf % c # 0 => Less(RefChunkVideos(fs, tf, c), r.est.max_chunk_videos_mb)

\* A partial last chunk in a run whose assembly phase dominates: the estimate is
\* strictly above the reference.
C6_Witness ==
    \E r \in ChunkedResults :
        /\ r.est.total_frames >= 0 /\ r.est.chunk_size >= 1 /\ r.width > 0 /\ r.height > 0
        /\ r.est.total_frames % r.est.chunk_size # 0
        /\ Less(r.est.peak_chunk_mb, r.est.total_peak_mb)
        /\ Less(RefTotalPeak(r.est.frame_size_mb, r.est.total_frames, r.est.chunk_size),
                r.est.total_peak_mb)

(***************************************************************************)
(* C7.  As claimed: for width 1920 and height 1080, frame_size_mb of both  *)
(* estimators lies between 7.12 and 7.14.                                  *)
(***************************************************************************)
FrameSizes1080p ==
    {r.est.frame_size_mb : r \in {x \in ChunkedResults : x.width = 1920 /\ x.height = 1080}}
    \cup (IF entry = "main" /\ old.kind = "return" /\ scenario.width = 1920
             /\ scenario.height = 1080 /\ pc \in {"new_100", "new_50", "print"}
          THEN {old.value.frame_size_mb} ELSE {})

C7_FrameSizeNear713 ==
    \A fs \in FrameSizes1080p : Leq(Norm(712, 100), fs) /\ Leq(fs, Norm(714, 100))

(***************************************************************************)
(* C7, amended.  For width 1920 and height 1080, frame_size_mb of both     *)
(* estimators is 7.119140625: within 0.01 of 7.12 (between 7.11 and 7.13), *)
(* and printed with two decimals as 7.12.                                  *)
(***************************************************************************)
C7_FrameSizeNear712 ==
    /\ \A fs \in FrameSizes1080p :
          /\ Leq(Norm(711, 100), fs) /\ Leq(fs, Norm(713, 100))
          /\ Fixed(fs, 2) = 712
    /\ \A k \in 1 .. Len(Figures) :
          Figures[k].name \in {"1080p 30fps 10min", "1080p 30fps 1hour"} =>
              Figures[k].values.frame_size = 712

C7_Witness ==
    /\ entry = "main" /\ pc = "print" /\ i = 4
    /\ Cardinality(FrameSizes1080p) = 1
    /\ old.value.frame_size_mb = new_50.value.frame_size_mb

(***************************************************************************)
(* C8.  As claimed: every call of an estimator, with zero and negative     *)
(* arguments too, returns an estimate record and never raises.             *)
(***************************************************************************)
C8_EstimatorsTotal ==
    /\ ret_old.kind # "raise"
    /\ \A c \in DOMAIN ret_new : ret_new[c].kind # "raise"

(***************************************************************************)
(* C8, amended.  estimate_storage_old_approach returns an estimate record  *)
(* for all finite arguments, zero and negative ones included;              *)
(* estimate_storage_chunked_approach returns one for every chunk size      *)
(* other than 0 and raises ZeroDivisionError for chunk size 0.             *)
(***************************************************************************)
C8_TotalExceptChunkZero ==
    /\ ret_old.kind \in {"none", "return"}
    /\ \A c \in DOMAIN ret_new :
          /\ c # 0 => ret_new[c].kind = "return" /\ ret_new[c].value.chunk_size = c
          /\ c = 0 => ret_new[c] = Raise("ZeroDivisionError")
    /\ entry = "main" => {old.kind, new_100.kind, new_50.kind} \subseteq {"none", "return"}

C8_Witness ==
    /\ entry = "call" /\ ret_old.kind = "return"
    /\ args.width < 0 /\ args.height = 0 /\ args.fps.n < 0 /\ args.duration < 0
    /\ {-1, 0, 1} \subseteq DOMAIN ret_new
    /\ ret_new[0].kind = "raise" /\ ret_new[-1].kind = "return"

(***************************************************************************)
(* C9.  A run of print_comparison processes the four fixed scenarios, each *)
(* once and in list order; per scenario it calls the old estimator, the    *)
(* chunked one with chunk size 100 and the chunked one with chunk size 50, *)
(* in this order and before the scenario's figures are emitted; and the    *)
(* run terminates normally.                                                *)
(***************************************************************************)
ExpectedCalls ==
    [k \in 1 .. 3 * Len(scenarios) |->
        LET s == (k - 1) \div 3 + 1
            j == (k - 1) % 3
        IN  [fn |-> IF j = 0 THEN "old" ELSE "chunked",
             scenario |-> s,
             chunk_size |-> IF j = 0 THEN 0 ELSE IF j = 1 THEN 100 ELSE 50]]

Begun == SelectSeq(out, LAMBDA e : e.tag = "scenario")

C9_RunOrder ==
    entry = "main" =>
        /\ Len(calls) <= Len(ExpectedCalls)
        /\ calls = SubSeq(ExpectedCalls, 1, Len(calls))
        /\ \A k \in 1 .. Len(Begun) : Begun[k].name = scenarios[k].name
        /\ \A k \in 1 .. Len(Figures) : Figures[k].name = scenarios[k].name
        /\ Len(Figures) <= Len(Begun) /\ Len(Begun) <= Len(Figures) + 1
        /\ 3 * Len(Figures) <= Len(calls) /\ Len(calls) <= 3 * Len(Begun)
        /\ Len(Begun) = i /\ i <= Len(scenarios)
        /\ pc # "raised"
        /\ pc = "done" => /\ calls = ExpectedCalls
                          /\ [k \in 1 .. Len(Figures) |-> Figures[k].name]
                               = <<"1080p 30fps 10min", "4K 30fps 10min",
                                   "4K 60fps 10min", "1080p 30fps 1hour">>
                          /\ Len(Figures) = Len(scenarios)
                          /\ Len(Begun) = Len(scenarios)

C9_ReportRun == []C9_RunOrder /\ ((entry = "main") ~> (pc = "done"))

C9_Witness ==
    /\ entry = "main" /\ pc = "done"
    /\ Len(calls) = 12 /\ Len(Figures) = 4

(***************************************************************************)
(* C10.  Whenever chunk_size >= 1 divides total_frames,                    *)
(* max_chunk_videos_mb is 0.2 * frame_size_mb * total_frames, whatever the *)
(* chunk size.  In the four fixed scenarios the assembly phase dominates   *)
(* at both chunk sizes (2 * max_chunk_videos_mb > peak_chunk_mb), the      *)
(* chunked total_peak_mb at chunk size 100 equals the one at chunk size    *)
(* 50, and the two savings percentages of a scenario are the same.         *)
(***************************************************************************)
C10_AssemblyIndependentOfChunkSize ==
    /\ \A r \in ChunkedResults :
          (r.est.chunk_size >= 1 /\ r.est.total_frames % r.est.chunk_size = 0) =>
              r.est.max_chunk_videos_mb
                = Mul(Mul(Norm(2, 10), r.est.frame_size_mb), Q(r.est.total_frames))
    /\ (entry = "main" /\ pc = "print") =>
          /\ Less(new_100.value.peak_chunk_mb, Mul(Q(2), new_100.value.max_chunk_videos_mb))
          /\ Less(new_50.value.peak_chunk_mb, Mul(Q(2), new_50.value.max_chunk_videos_mb))
          /\ new_100.value.total_peak_mb = new_50.value.total_peak_mb
          /\ savings(old.value.total_peak_mb, new_100.value.total_peak_mb)
               = savings(old.value.total_peak_mb, new_50.value.total_peak_mb)
    /\ \A k \in 1 .. Len(Figures) :
          /\ Figures[k].values.new_100_mb = Figures[k].values.new_50_mb
          /\ Figures[k].values.new_100_savings = Figures[k].values.new_50_savings

C10_Witness ==
    /\ entry = "main" /\ pc = "loop" /\ Len(Figures) = 4
    /\ new_100.value.total_chunks = 1080 /\ new_50.value.total_chunks = 2160

====
